---- MODULE Spec2Model ----
(***************************************************************************)
(* Hotel Reservation System (src/main.py): three JSON backing files        *)
(* (hotels, customers, reservations), the Hotel / Customer / Reservation   *)
(* classes that load and rewrite them, and the console operations that     *)
(* combine them.  In one run of the program every operation runs to        *)
(* completion before the next one starts; an uncaught Python exception     *)
(* ends the operation where it is raised and keeps whatever was written    *)
(* before it.  Two runs of the program share the backing files and take    *)
(* their steps, one file access each, in any order (procs).                *)
(***************************************************************************)
EXTENDS Integers, Sequences, FiniteSets, TLC

VARIABLES hotels_file, customers_file, reservations_file, out, procs

vars == <<hotels_file, customers_file, reservations_file, out, procs>>

(* ------------------------------ bounds -------------------------------- *)
\* largest room count typed in or reached by an increment
MaxRooms == 2
\* largest number of records kept in reservations.json
MaxRes == 2

(* --------------------------- input domains ---------------------------- *)
HotelNames == {"H1", "H2"}
Locations == {"Paris", "Rome"}
HotelEmails == {"info@h.com"}
Emails == {"a@x.com", "b@x.com"}
CustomerNames == {"Ann", "Bob"}
Phones == {"1234567890"}
RoomCounts == 0..MaxRooms

(* ------------------------------ records ------------------------------- *)
Hotel(name, location, rooms_available, email) ==
    [name |-> name, location |-> location,
     rooms_available |-> rooms_available, email |-> email]

Customer(name, email, phone) ==
    [name |-> name, email |-> email, phone |-> phone]

Reservation(customer_email, hotel_name) ==
    [customer_email |-> customer_email, hotel_name |-> hotel_name]

(* --------------------------- backing files ---------------------------- *)
\* What a backing file can hold:
\*   absent   no file
\*   text     characters that are not JSON ("invalid json")
\*   bytes    bytes that are not UTF-8
\*   scalar   a JSON value that is no list (5, null)
\*   badrecs  a JSON list whose first element is not a well-formed record,
\*            followed by the records in recs
\*   list     a JSON list of the well-formed records in recs
FileKinds == {"absent", "text", "bytes", "scalar", "badrecs", "list"}

AbsentFile == [kind |-> "absent", recs |-> <<>>]
ListFile(recs) == [kind |-> "list", recs |-> recs]
CorruptFile(kind) == [kind |-> kind, recs |-> <<>>]

\* The value a call hands back: exc is the uncaught exception ("none" when
\* the call returns), file the backing file afterwards.
Returned(file) == [exc |-> "none", file |-> file]
Raises(exc, file) == [exc |-> exc, file |-> file]

\* The value a load hands back: the Python value it returns is a list of
\* records (shape "list"), or for Reservation whatever json.load produced.
Loaded(recs) == [exc |-> "none", shape |-> "list", recs |-> recs]
LoadedAs(shape, recs) == [exc |-> "none", shape |-> shape, recs |-> recs]
LoadRaises(exc) == [exc |-> exc, shape |-> "none", recs |-> <<>>]

(* --------------------------- list helpers ----------------------------- *)
RemoveAt(s, i) == SubSeq(s, 1, i - 1) \o SubSeq(s, i + 1, Len(s))

\* next((x for x in s if key(x) == k), None): index of the first match, 0 if none
FirstHotel(hotels, name) ==
    IF \E i \in 1..Len(hotels) : hotels[i].name = name
    THEN CHOOSE i \in 1..Len(hotels) :
            /\ hotels[i].name = name
            /\ \A j \in 1..(i - 1) : hotels[j].name # name
    ELSE 0

FirstCustomer(customers, email) ==
    IF \E i \in 1..Len(customers) : customers[i].email = email
    THEN CHOOSE i \in 1..Len(customers) :
            /\ customers[i].email = email
            /\ \A j \in 1..(i - 1) : customers[j].email # email
    ELSE 0

Matches(r, email, hotel_name) ==
    r.customer_email = email /\ r.hotel_name = hotel_name

\* the lookup with the hotel name left out of the comparison
FirstReservation_ByEmail(reservations, email, hotel_name) ==
    IF \E i \in 1..Len(reservations) : reservations[i].customer_email = email
    THEN CHOOSE i \in 1..Len(reservations) :
            /\ reservations[i].customer_email = email
            /\ \A j \in 1..(i - 1) : reservations[j].customer_email # email
    ELSE 0

FirstReservation(reservations, email, hotel_name) ==
    IF \E i \in 1..Len(reservations) : Matches(reservations[i], email, hotel_name)
    THEN CHOOSE i \in 1..Len(reservations) :
            /\ Matches(reservations[i], email, hotel_name)
            /\ \A j \in 1..(i - 1) : ~Matches(reservations[j], email, hotel_name)
    ELSE 0

(* ------------------------------- Hotel -------------------------------- *)
load_hotels(f) ==
    CASE f.kind = "absent"  -> Loaded(<<>>)
      [] f.kind = "text"    -> Loaded(<<>>)
      [] f.kind = "bytes"   -> LoadRaises("UnicodeDecodeError")
      [] f.kind = "scalar"  -> LoadRaises("TypeError")
      [] f.kind = "badrecs" -> LoadRaises("TypeError")
      [] f.kind = "list"    -> Loaded(f.recs)

Hotel_save_all(hotels) == ListFile(hotels)

\* save() without the removal of the stored record of the same name
Hotel_save_Append(self, f) ==
    LET l == load_hotels(f) IN
    IF l.exc # "none" THEN Raises(l.exc, f)
    ELSE Returned(Hotel_save_all(Append(l.recs, self)))

Hotel_save(self, f) ==
    LET l == load_hotels(f) IN
    IF l.exc # "none" THEN Raises(l.exc, f)
    ELSE LET existing == FirstHotel(l.recs, self.name)
             hotels == IF existing # 0 THEN RemoveAt(l.recs, existing) ELSE l.recs
         IN Returned(Hotel_save_all(Append(hotels, self)))

\* delete() with the filter inverted: keeps the records of that name
Hotel_delete_Inverted(self, f) ==
    LET l == load_hotels(f) IN
    IF l.exc # "none" THEN Raises(l.exc, f)
    ELSE Returned(Hotel_save_all(SelectSeq(l.recs, LAMBDA h : h.name = self.name)))

Hotel_delete(self, f) ==
    LET l == load_hotels(f) IN
    IF l.exc # "none" THEN Raises(l.exc, f)
    ELSE Returned(Hotel_save_all(SelectSeq(l.recs, LAMBDA h : h.name # self.name)))

\* reserve_room() without the rooms_available > 0 test
Hotel_reserve_room_Unguarded(self, f) ==
    LET s == Hotel_save([self EXCEPT !.rooms_available = @ - 1], f)
    IN [exc |-> s.exc, file |-> s.file, ret |-> TRUE]

\* reserve_room() that lowers the count of the object and never saves it
Hotel_reserve_room_NoSave(self, f) ==
    IF self.rooms_available > 0
    THEN [exc |-> "none", file |-> f, ret |-> TRUE]
    ELSE [exc |-> "none", file |-> f, ret |-> FALSE]

\* ret is the method's return value
Hotel_reserve_room(self, f) ==
    IF self.rooms_available > 0
    THEN LET s == Hotel_save([self EXCEPT !.rooms_available = @ - 1], f)
         IN [exc |-> s.exc, file |-> s.file, ret |-> TRUE]
    ELSE [exc |-> "none", file |-> f, ret |-> FALSE]

\* cancel_reservation() that raises the count of the object and never saves it
Hotel_cancel_reservation_NoSave(self, f) == Returned(f)

Hotel_cancel_reservation(self, f) ==
    Hotel_save([self EXCEPT !.rooms_available = @ + 1], f)

(* ------------------------------ Customer ------------------------------ *)
load_customers(f) ==
    CASE f.kind = "absent"  -> Loaded(<<>>)
      [] f.kind = "text"    -> Loaded(<<>>)
      [] f.kind = "bytes"   -> LoadRaises("UnicodeDecodeError")
      [] f.kind = "scalar"  -> LoadRaises("TypeError")
      [] f.kind = "badrecs" -> LoadRaises("TypeError")
      [] f.kind = "list"    -> Loaded(f.recs)

Customer_save_all(customers) == ListFile(customers)

Customer_save(self, f) ==
    LET l == load_customers(f) IN
    IF l.exc # "none" THEN Raises(l.exc, f)
    ELSE LET existing == FirstCustomer(l.recs, self.email)
             customers == IF existing # 0 THEN RemoveAt(l.recs, existing) ELSE l.recs
         IN Returned(Customer_save_all(Append(customers, self)))

Customer_delete(self, f) ==
    LET l == load_customers(f) IN
    IF l.exc # "none" THEN Raises(l.exc, f)
    ELSE Returned(Customer_save_all(SelectSeq(l.recs, LAMBDA c : c.email # self.email)))

(* ----------------------------- Reservation ---------------------------- *)
load_reservations(f) ==
    CASE f.kind = "absent"  -> Loaded(<<>>)
      [] f.kind = "text"    -> Loaded(<<>>)
      [] f.kind = "bytes"   -> LoadRaises("UnicodeDecodeError")
      [] f.kind = "scalar"  -> LoadedAs("scalar", <<>>)
      [] f.kind = "badrecs" -> LoadedAs("badrecs", f.recs)
      [] f.kind = "list"    -> Loaded(f.recs)

Reservation_save(self, f) ==
    LET l == load_reservations(f) IN
    IF l.exc # "none" THEN Raises(l.exc, f)
    ELSE IF l.shape = "scalar" THEN Raises("AttributeError", f)
    ELSE Returned([kind |-> l.shape, recs |-> Append(l.recs, self)])

\* cancel() that removes the first matching record only
Reservation_cancel_First(self, f) ==
    LET l == load_reservations(f) IN
    IF l.exc # "none" THEN Raises(l.exc, f)
    ELSE IF l.shape = "scalar" THEN Raises("TypeError", f)
    ELSE IF l.shape = "badrecs" THEN Raises("KeyError", f)
    ELSE LET i == FirstReservation(l.recs, self.customer_email, self.hotel_name)
         IN Returned(ListFile(IF i = 0 THEN l.recs ELSE RemoveAt(l.recs, i)))

Reservation_cancel(self, f) ==
    LET l == load_reservations(f) IN
    IF l.exc # "none" THEN Raises(l.exc, f)
    ELSE IF l.shape = "scalar" THEN Raises("TypeError", f)
    ELSE IF l.shape = "badrecs" THEN Raises("KeyError", f)
    ELSE Returned(ListFile(SelectSeq(l.recs,
            LAMBDA r : ~(r.customer_email = self.customer_email
                         /\ r.hotel_name = self.hotel_name))))

(* ------------------------- console operations ------------------------- *)
\* What the operation shows: the line it prints, or the name of the
\* exception that ends it; for a load, also the value it returns.
Msg(m) == [msg |-> m, shape |-> "none", val |-> <<>>]

\* Each console operation is first computed as a value
\* [msg, hotels, customers, reservations]: what it prints and the three
\* backing files when it ends.
Outcome(m, hf, cf, rf) ==
    [msg |-> m, hotels |-> hf, customers |-> cf, reservations |-> rf]

create_hotel_op(name, location, rooms, email, hf, cf, rf) ==
    LET s == Hotel_save(Hotel(name, location, rooms, email), hf) IN
    IF s.exc # "none" THEN Outcome(s.exc, s.file, cf, rf)
    ELSE Outcome("Hotel created successfully", s.file, cf, rf)

delete_hotel_op(name, hf, cf, rf) ==
    LET l == load_hotels(hf) IN
    IF l.exc # "none" THEN Outcome(l.exc, hf, cf, rf)
    ELSE LET i == FirstHotel(l.recs, name) IN
         IF i = 0 THEN Outcome("Hotel not found", hf, cf, rf)
         ELSE LET d == Hotel_delete(l.recs[i], hf) IN
              IF d.exc # "none" THEN Outcome(d.exc, d.file, cf, rf)
              ELSE Outcome("Hotel deleted successfully", d.file, cf, rf)

\* field is the menu choice typed in; value the new, already validated value
modify_hotel_op(name, field, value, hf, cf, rf) ==
    LET l == load_hotels(hf) IN
    IF l.exc # "none" THEN Outcome(l.exc, hf, cf, rf)
    ELSE LET i == FirstHotel(l.recs, name) IN
         IF i = 0 THEN Outcome("Hotel not found", hf, cf, rf)
         ELSE IF field \notin {"1", "2", "3"}
              THEN Outcome("Invalid field selection", hf, cf, rf)
         ELSE LET hotel == CASE field = "1" -> [l.recs[i] EXCEPT !.location = value]
                             [] field = "2" -> [l.recs[i] EXCEPT !.rooms_available = value]
                             [] field = "3" -> [l.recs[i] EXCEPT !.email = value]
                  s == Hotel_save(hotel, hf)
              IN IF s.exc # "none" THEN Outcome(s.exc, s.file, cf, rf)
                 ELSE Outcome("Hotel updated successfully", s.file, cf, rf)

create_customer_op(name, email, phone, hf, cf, rf) ==
    LET s == Customer_save(Customer(name, email, phone), cf) IN
    IF s.exc # "none" THEN Outcome(s.exc, hf, s.file, rf)
    ELSE Outcome("Customer created successfully", hf, s.file, rf)

delete_customer_op(email, hf, cf, rf) ==
    LET l == load_customers(cf) IN
    IF l.exc # "none" THEN Outcome(l.exc, hf, cf, rf)
    ELSE LET i == FirstCustomer(l.recs, email) IN
         IF i = 0 THEN Outcome("Customer not found", hf, cf, rf)
         ELSE LET d == Customer_delete(l.recs[i], cf) IN
              IF d.exc # "none" THEN Outcome(d.exc, hf, d.file, rf)
              ELSE Outcome("Customer deleted successfully", hf, d.file, rf)

modify_customer_op(email, field, value, hf, cf, rf) ==
    LET l == load_customers(cf) IN
    IF l.exc # "none" THEN Outcome(l.exc, hf, cf, rf)
    ELSE LET i == FirstCustomer(l.recs, email) IN
         IF i = 0 THEN Outcome("Customer not found", hf, cf, rf)
         ELSE IF field \notin {"1", "2"}
              THEN Outcome("Invalid field selection", hf, cf, rf)
         ELSE LET customer == CASE field = "1" -> [l.recs[i] EXCEPT !.name = value]
                                [] field = "2" -> [l.recs[i] EXCEPT !.phone = value]
                  s == Customer_save(customer, cf)
              IN IF s.exc # "none" THEN Outcome(s.exc, hf, s.file, rf)
                 ELSE Outcome("Customer updated successfully", hf, s.file, rf)

\* create_reservation with the room test written < 0 instead of <= 0
create_reservation_op_OffByOne(email, hotel_name, hf, cf, rf) ==
    LET cl == load_customers(cf) IN
    IF cl.exc # "none" THEN Outcome(cl.exc, hf, cf, rf)
    ELSE IF FirstCustomer(cl.recs, email) = 0
         THEN Outcome("Customer not found", hf, cf, rf)
    ELSE LET hl == load_hotels(hf) IN
    IF hl.exc # "none" THEN Outcome(hl.exc, hf, cf, rf)
    ELSE LET i == FirstHotel(hl.recs, hotel_name) IN
    IF i = 0 THEN Outcome("Hotel not found", hf, cf, rf)
    ELSE IF hl.recs[i].rooms_available < 0
         THEN Outcome("No available rooms in this hotel", hf, cf, rf)
    ELSE LET s == Reservation_save(Reservation(email, hotel_name), rf) IN
    IF s.exc # "none" THEN Outcome(s.exc, hf, cf, s.file)
    ELSE LET r == Hotel_reserve_room(hl.recs[i], hf) IN
    IF r.exc # "none" THEN Outcome(r.exc, r.file, cf, s.file)
    ELSE IF r.ret THEN Outcome("Reservation created successfully", r.file, cf, s.file)
    ELSE Outcome("Failed to create reservation", r.file, cf, s.file)

create_reservation_op(email, hotel_name, hf, cf, rf) ==
    LET cl == load_customers(cf) IN
    IF cl.exc # "none" THEN Outcome(cl.exc, hf, cf, rf)
    ELSE IF FirstCustomer(cl.recs, email) = 0
         THEN Outcome("Customer not found", hf, cf, rf)
    ELSE LET hl == load_hotels(hf) IN
    IF hl.exc # "none" THEN Outcome(hl.exc, hf, cf, rf)
    ELSE LET i == FirstHotel(hl.recs, hotel_name) IN
    IF i = 0 THEN Outcome("Hotel not found", hf, cf, rf)
    ELSE IF hl.recs[i].rooms_available <= 0
         THEN Outcome("No available rooms in this hotel", hf, cf, rf)
    ELSE LET s == Reservation_save(Reservation(email, hotel_name), rf) IN
    IF s.exc # "none" THEN Outcome(s.exc, hf, cf, s.file)
    ELSE LET r == Hotel_reserve_room(hl.recs[i], hf) IN
    IF r.exc # "none" THEN Outcome(r.exc, r.file, cf, s.file)
    ELSE IF r.ret THEN Outcome("Reservation created successfully", r.file, cf, s.file)
    ELSE Outcome("Failed to create reservation", r.file, cf, s.file)

\* cancel_reservation looking the hotel up before it cancels and giving up
\* when no hotel of that name is stored
cancel_reservation_op_HotelFirst(email, hotel_name, hf, cf, rf) ==
    LET l == load_reservations(rf) IN
    IF l.exc # "none" THEN Outcome(l.exc, hf, cf, rf)
    ELSE IF l.shape = "scalar" THEN Outcome("TypeError", hf, cf, rf)
    ELSE IF l.shape = "badrecs" THEN Outcome("KeyError", hf, cf, rf)
    ELSE IF FirstReservation(l.recs, email, hotel_name) = 0
         THEN Outcome("Reservation not found", hf, cf, rf)
    ELSE LET hl == load_hotels(hf) IN
    IF hl.exc # "none" THEN Outcome(hl.exc, hf, cf, rf)
    ELSE LET i == FirstHotel(hl.recs, hotel_name) IN
    IF i = 0 THEN Outcome("Hotel not found", hf, cf, rf)
    ELSE LET c == Reservation_cancel(Reservation(email, hotel_name), rf) IN
    IF c.exc # "none" THEN Outcome(c.exc, hf, cf, c.file)
    ELSE LET h == Hotel_cancel_reservation(hl.recs[i], hf) IN
    IF h.exc # "none" THEN Outcome(h.exc, h.file, cf, c.file)
    ELSE Outcome("Reservation canceled successfully", h.file, cf, c.file)

cancel_reservation_op(email, hotel_name, hf, cf, rf) ==
    LET l == load_reservations(rf) IN
    IF l.exc # "none" THEN Outcome(l.exc, hf, cf, rf)
    ELSE IF l.shape = "scalar" THEN Outcome("TypeError", hf, cf, rf)
    ELSE IF l.shape = "badrecs" THEN Outcome("KeyError", hf, cf, rf)
    ELSE IF FirstReservation(l.recs, email, hotel_name) = 0
         THEN Outcome("Reservation not found", hf, cf, rf)
    ELSE LET c == Reservation_cancel(Reservation(email, hotel_name), rf) IN
    IF c.exc # "none" THEN Outcome(c.exc, hf, cf, c.file)
    ELSE LET hl == load_hotels(hf) IN
    IF hl.exc # "none" THEN Outcome(hl.exc, hf, cf, c.file)
    ELSE LET i == FirstHotel(hl.recs, hotel_name) IN
    IF i = 0 THEN Outcome("Reservation canceled successfully", hf, cf, c.file)
    ELSE LET h == Hotel_cancel_reservation(hl.recs[i], hf) IN
    IF h.exc # "none" THEN Outcome(h.exc, h.file, cf, c.file)
    ELSE Outcome("Reservation canceled successfully", h.file, cf, c.file)

(* ---------------------- the model's size limits ----------------------- *)
RoomsOf(f) == {f.recs[i].rooms_available : i \in 1..Len(f.recs)}

\* An operation is left out when it would carry a room count past MaxRooms
\* or the reservation file past MaxRes records.
WithinBounds(o) ==
    /\ \A n \in RoomsOf(o.hotels) : n <= MaxRooms
    /\ Len(o.reservations.recs) <= MaxRes

Apply(o) ==
    /\ WithinBounds(o)
    /\ hotels_file' = o.hotels
    /\ customers_file' = o.customers
    /\ reservations_file' = o.reservations
    /\ out' = Msg(o.msg)
    /\ UNCHANGED procs

(* ------------------ two runs sharing the backing files ---------------- *)
Procs == {1, 2}

\* What one run holds in memory between two file accesses: where it is
\* (pc), the call it is in (op), the Hotel object and the Reservation
\* object it works on, the collection it loaded last (snap) and the line
\* it printed (msg).
Proc(pc, op, hotel, res, snap, msg) ==
    [pc |-> pc, op |-> op, hotel |-> hotel, res |-> res, snap |-> snap, msg |-> msg]

NoHotel == Hotel("", "", 0, "")
NoReservation == Reservation("", "")
Idle == Proc("idle", "", NoHotel, NoReservation, AbsentFile, "")

(* ------------------------------ actions ------------------------------- *)
create_hotel(name, location, rooms, email) ==
    Apply(create_hotel_op(name, location, rooms, email,
                          hotels_file, customers_file, reservations_file))

delete_hotel(name) ==
    Apply(delete_hotel_op(name, hotels_file, customers_file, reservations_file))

modify_hotel(name, field, value) ==
    Apply(modify_hotel_op(name, field, value,
                          hotels_file, customers_file, reservations_file))

create_customer(name, email, phone) ==
    Apply(create_customer_op(name, email, phone,
                             hotels_file, customers_file, reservations_file))

delete_customer(email) ==
    Apply(delete_customer_op(email, hotels_file, customers_file, reservations_file))

modify_customer(email, field, value) ==
    Apply(modify_customer_op(email, field, value,
                             hotels_file, customers_file, reservations_file))

create_reservation(email, hotel_name) ==
    Apply(create_reservation_op(email, hotel_name,
                                hotels_file, customers_file, reservations_file))

cancel_reservation(email, hotel_name) ==
    Apply(cancel_reservation_op(email, hotel_name,
                                hotels_file, customers_file, reservations_file))

\* hotel.reserve_room() and hotel.cancel_reservation() called on a Hotel
\* object the caller holds (the tests construct one and call them directly)
Call_Hotel_reserve_room(self) ==
    LET r == Hotel_reserve_room(self, hotels_file) IN
    Apply(Outcome(IF r.exc # "none" THEN r.exc ELSE IF r.ret THEN "True" ELSE "False",
                  r.file, customers_file, reservations_file))

Call_Hotel_cancel_reservation(self) ==
    LET r == Hotel_cancel_reservation(self, hotels_file) IN
    Apply(Outcome(IF r.exc # "none" THEN r.exc ELSE "None",
                  r.file, customers_file, reservations_file))

\* Hotel(...).save() / .delete() and Customer(...).save() / .delete() called
\* on an object the caller constructed; both return None
Call_Hotel_save(self) ==
    LET r == Hotel_save(self, hotels_file) IN
    Apply(Outcome(IF r.exc # "none" THEN r.exc ELSE "None",
                  r.file, customers_file, reservations_file))

Call_Hotel_delete(self) ==
    LET r == Hotel_delete(self, hotels_file) IN
    Apply(Outcome(IF r.exc # "none" THEN r.exc ELSE "None",
                  r.file, customers_file, reservations_file))

Call_Customer_save(self) ==
    LET r == Customer_save(self, customers_file) IN
    Apply(Outcome(IF r.exc # "none" THEN r.exc ELSE "None",
                  hotels_file, r.file, reservations_file))

Call_Customer_delete(self) ==
    LET r == Customer_delete(self, customers_file) IN
    Apply(Outcome(IF r.exc # "none" THEN r.exc ELSE "None",
                  hotels_file, r.file, reservations_file))

Call_Reservation_save(self) ==
    LET r == Reservation_save(self, reservations_file) IN
    Apply(Outcome(IF r.exc # "none" THEN r.exc ELSE "None",
                  hotels_file, customers_file, r.file))

\* The loads, called on their own: out shows the value returned
ShowLoad(l) ==
    [msg |-> IF l.exc # "none" THEN l.exc ELSE "loaded",
     shape |-> l.shape, val |-> l.recs]

Call_load_hotels ==
    /\ out' = ShowLoad(load_hotels(hotels_file))
    /\ UNCHANGED <<hotels_file, customers_file, reservations_file, procs>>

Call_load_customers ==
    /\ out' = ShowLoad(load_customers(customers_file))
    /\ UNCHANGED <<hotels_file, customers_file, reservations_file, procs>>

Call_load_reservations ==
    /\ out' = ShowLoad(load_reservations(reservations_file))
    /\ UNCHANGED <<hotels_file, customers_file, reservations_file, procs>>

HotelFieldValues(field) ==
    CASE field = "1" -> Locations
      [] field = "2" -> RoomCounts
      [] field = "3" -> HotelEmails
      [] OTHER -> {""}

CustomerFieldValues(field) ==
    CASE field = "1" -> CustomerNames
      [] field = "2" -> Phones
      [] OTHER -> {""}

HotelObjects ==
    {Hotel(n, l, r, e) : n \in HotelNames, l \in Locations,
                         r \in RoomCounts, e \in HotelEmails}

CustomerObjects ==
    {Customer(n, e, p) : n \in CustomerNames, e \in Emails, p \in Phones}

ReservationObjects ==
    {Reservation(e, n) : e \in Emails, n \in HotelNames}

(* --------------------- the program, run sequentially ------------------ *)
\* No backing file exists when the program first starts.  The console
\* session registers one customer ("a@x.com"); "b@x.com" is an email that is
\* typed in but never registered.
Init ==
    /\ hotels_file = AbsentFile
    /\ customers_file = AbsentFile
    /\ reservations_file = AbsentFile
    /\ out = Msg("")
    /\ procs = [p \in Procs |-> Idle]

Next ==
    \/ \E n \in HotelNames, r \in RoomCounts : create_hotel(n, "Paris", r, "info@h.com")
    \/ \E n \in HotelNames : delete_hotel(n)
    \/ \E n \in HotelNames, f \in {"1", "2", "3", "9"} :
          \E v \in HotelFieldValues(f) : modify_hotel(n, f, v)
    \/ create_customer("Ann", "a@x.com", "1234567890")
    \/ \E e \in Emails : delete_customer(e)
    \/ \E e \in Emails, f \in {"1", "2", "9"} :
          \E v \in CustomerFieldValues(f) : modify_customer(e, f, v)
    \/ \E e \in Emails, n \in HotelNames : create_reservation(e, n)
    \/ \E e \in Emails, n \in HotelNames : cancel_reservation(e, n)
    \/ \E n \in HotelNames, r \in RoomCounts :
          Call_Hotel_reserve_room(Hotel(n, "Paris", r, "info@h.com"))
    \/ \E n \in HotelNames, r \in RoomCounts :
          Call_Hotel_cancel_reservation(Hotel(n, "Paris", r, "info@h.com"))

Spec == Init /\ [][Next]_vars

(* ------------- reservations only: create and cancel ------------------- *)
\* The room count each hotel was created with
InitRooms(name) == IF name = "H1" THEN 1 ELSE 2

RECURSIVE Orderings(_)
\* every sequence that lists each element of S once
Orderings(S) ==
    IF S = {} THEN {<<>>}
    ELSE UNION {{Append(s, x) : s \in Orderings(S \ {x})} : x \in S}

\* hotels.json after create_hotel was run for some of the hotels, each with
\* its InitRooms; customers.json after create_customer for some customers
InitialHotelFiles ==
    {AbsentFile} \cup
    {ListFile(s) : s \in UNION {Orderings({Hotel(n, "Paris", InitRooms(n), "info@h.com") : n \in N}) :
                                  N \in (SUBSET HotelNames) \ {{}}}}

InitialCustomerFiles ==
    {AbsentFile} \cup
    {ListFile(s) : s \in UNION {Orderings({Customer("Ann", e, "1234567890") : e \in E}) :
                                  E \in (SUBSET Emails) \ {{}}}}

InitRes ==
    /\ hotels_file \in InitialHotelFiles
    /\ customers_file \in InitialCustomerFiles
    /\ reservations_file = AbsentFile
    /\ out = Msg("")
    /\ procs = [p \in Procs |-> Idle]

NextRes ==
    \/ \E e \in Emails, n \in HotelNames : create_reservation(e, n)
    \/ \E e \in Emails, n \in HotelNames : cancel_reservation(e, n)

SpecRes == InitRes /\ [][NextRes]_vars

(* ------------- the two keyed collections: save and delete ------------- *)
NextStore ==
    \/ \E h \in HotelObjects : Call_Hotel_save(h)
    \/ \E h \in HotelObjects : Call_Hotel_delete(h)
    \/ \E c \in CustomerObjects : Call_Customer_save(c)
    \/ \E c \in CustomerObjects : Call_Customer_delete(c)

SpecStore == Init /\ [][NextStore]_vars

(* ------------- loading whatever the backing files hold ---------------- *)
\* A backing file as something other than the program left it
ForeignFiles ==
    {AbsentFile} \cup {CorruptFile(k) : k \in {"text", "bytes", "scalar", "badrecs"}}

InitLoad ==
    /\ hotels_file \in ForeignFiles
    /\ customers_file \in ForeignFiles
    /\ reservations_file \in ForeignFiles
    /\ out = Msg("")
    /\ procs = [p \in Procs |-> Idle]

NextLoad ==
    \/ Call_load_hotels
    \/ Call_load_customers
    \/ Call_load_reservations
    \/ \E n \in HotelNames, r \in RoomCounts :
          Call_Hotel_save(Hotel(n, "Paris", r, "info@h.com"))
    \/ \E e \in Emails : Call_Customer_save(Customer("Ann", e, "1234567890"))
    \/ \E r \in ReservationObjects : Call_Reservation_save(r)

SpecLoad == InitLoad /\ [][NextLoad]_vars

(* ===================== what the claims speak about ==================== *)
\* the records a backing file stores
Stored(f) == IF f.kind = "list" THEN f.recs ELSE <<>>

HasHotel(f, name) == \E i \in 1..Len(Stored(f)) : Stored(f)[i].name = name

HasCustomer(f, email) == \E i \in 1..Len(Stored(f)) : Stored(f)[i].email = email

\* rooms_available of the stored hotel called name
RoomsAt(f, name) ==
    LET i == CHOOSE k \in 1..Len(Stored(f)) : Stored(f)[k].name = name
    IN Stored(f)[i].rooms_available

\* how many stored reservation records name the pair / the hotel
CountRes(f, email, hotel_name) ==
    Cardinality({i \in 1..Len(Stored(f)) :
                    /\ Stored(f)[i].customer_email = email
                    /\ Stored(f)[i].hotel_name = hotel_name})

CountHotelRes(f, hotel_name) ==
    Cardinality({i \in 1..Len(Stored(f)) : Stored(f)[i].hotel_name = hotel_name})

\* how many times record x occurs in the sequence s
Occurrences(s, x) == Cardinality({i \in 1..Len(s) : s[i] = x})

(* -------------------------------- C1 ---------------------------------- *)
\* C1: with reservations initially empty and only create_reservation and
\* cancel_reservation run, for every stored hotel the room count it was
\* created with minus its stored room count equals the number of stored
\* reservation records naming it.
C1_OneRecordOneUnit ==
    \A i \in 1..Len(Stored(hotels_file)) :
        LET h == Stored(hotels_file)[i] IN
        InitRooms(h.name) - h.rooms_available = CountHotelRes(reservations_file, h.name)

(* -------------------------------- C2 ---------------------------------- *)
\* C2: in every reachable state every stored hotel has rooms_available >= 0.
C2_CapacityNonNegative ==
    \A i \in 1..Len(Stored(hotels_file)) : Stored(hotels_file)[i].rooms_available >= 0

\* reserve_room has just taken the last room of a stored hotel
C2_Witness ==
    /\ out.msg = "True"
    /\ \E i \in 1..Len(Stored(hotels_file)) : Stored(hotels_file)[i].rooms_available = 0

(* -------------------------------- C3 ---------------------------------- *)
\* C3: create_reservation for a stored customer, a stored hotel with
\* rooms_available > 0 and no stored record for the pair prints success,
\* leaves the hotel stored with exactly one room less, and leaves exactly
\* one reservation record for the pair.
C3_CreateSucceeds ==
    [][\A e \in Emails, n \in HotelNames :
         ( /\ create_reservation(e, n)
           /\ HasCustomer(customers_file, e)
           /\ HasHotel(hotels_file, n)
           /\ RoomsAt(hotels_file, n) > 0
           /\ CountRes(reservations_file, e, n) = 0 )
         => ( /\ out'.msg = "Reservation created successfully"
              /\ HasHotel(hotels_file', n)
              /\ RoomsAt(hotels_file', n) = RoomsAt(hotels_file, n) - 1
              /\ CountRes(reservations_file', e, n) = 1 )]_vars

\* a first reservation for a pair has just been created
C3_Witness ==
    /\ out.msg = "Reservation created successfully"
    /\ \E e \in Emails, n \in HotelNames :
          /\ CountRes(reservations_file, e, n) = 1
          /\ HasHotel(hotels_file, n)
          /\ RoomsAt(hotels_file, n) = InitRooms(n) - 1

(* -------------------------------- C4 ---------------------------------- *)
\* C4: create_reservation for an email no stored customer has, or a name no
\* stored hotel has, or a hotel whose rooms_available is <= 0, prints the
\* matching failure and leaves the three backing files as they were.
C4_RejectedCreateMutatesNothing ==
    [][\A e \in Emails, n \in HotelNames :
         ( /\ create_reservation(e, n)
           /\ \/ ~HasCustomer(customers_file, e)
              \/ ~HasHotel(hotels_file, n)
              \/ RoomsAt(hotels_file, n) <= 0 )
         => ( /\ out'.msg \in {"Customer not found", "Hotel not found",
                               "No available rooms in this hotel"}
              /\ hotels_file' = hotels_file
              /\ customers_file' = customers_file
              /\ reservations_file' = reservations_file )]_vars

\* a create_reservation has just been refused for a hotel with no room left
C4_Witness ==
    /\ out.msg = "No available rooms in this hotel"
    /\ \E n \in HotelNames : HasHotel(hotels_file, n) /\ RoomsAt(hotels_file, n) = 0
    /\ Len(Stored(reservations_file)) >= 1

(* -------------------------------- C5 ---------------------------------- *)
\* C5: cancel_reservation for a pair no stored record matches prints
\* "Reservation not found" and leaves reservations.json and hotels.json as
\* they were.
C5_CancelWithoutMatch ==
    [][\A e \in Emails, n \in HotelNames :
         ( /\ cancel_reservation(e, n)
           /\ CountRes(reservations_file, e, n) = 0 )
         => ( /\ out'.msg = "Reservation not found"
              /\ reservations_file' = reservations_file
              /\ hotels_file' = hotels_file )]_vars

\* a cancel has just been refused while other reservations are stored
C5_Witness ==
    /\ out.msg = "Reservation not found"
    /\ Len(Stored(reservations_file)) >= 1

(* -------------------------------- C6 ---------------------------------- *)
\* C6: cancel_reservation for a pair that N >= 1 stored records match prints
\* success, removes all N of them, keeps every other record in place and in
\* order, and raises the stored room count of the hotel (when a hotel of
\* that name is stored) by exactly 1, whatever N and whatever the count was.
C6_CancelRemovesAllAddsOne ==
    [][\A e \in Emails, n \in HotelNames :
         ( /\ cancel_reservation(e, n)
           /\ CountRes(reservations_file, e, n) >= 1 )
         => ( /\ out'.msg = "Reservation canceled successfully"
              /\ CountRes(reservations_file', e, n) = 0
              /\ Stored(reservations_file')
                    = SelectSeq(Stored(reservations_file),
                                LAMBDA r : r # Reservation(e, n))
              /\ HasHotel(hotels_file, n) =>
                    /\ HasHotel(hotels_file', n)
                    /\ RoomsAt(hotels_file', n) = RoomsAt(hotels_file, n) + 1 )]_vars

\* a cancel has just gone through: the pair's records are gone, another
\* pair's record is still stored and the hotel is stored with a room free
C6_Witness ==
    /\ out.msg = "Reservation canceled successfully"
    /\ \E e \in Emails, n \in HotelNames :
          /\ CountRes(reservations_file, e, n) = 0
          /\ CountHotelRes(reservations_file, n) = 0
          /\ Len(Stored(reservations_file)) >= 1
          /\ HasHotel(hotels_file, n)
          /\ RoomsAt(hotels_file, n) >= 1

(* -------------------------------- C7 ---------------------------------- *)
\* C7: from every reachable state with a stored customer, a stored hotel
\* with c > 0 rooms and no record for the pair, create_reservation followed
\* by cancel_reservation for the pair both print success, leave no record
\* for the pair and leave the hotel stored with c rooms again.
C7_CreateThenCancel ==
    \A e \in Emails, n \in HotelNames :
       ( /\ HasCustomer(customers_file, e)
         /\ HasHotel(hotels_file, n)
         /\ RoomsAt(hotels_file, n) > 0
         /\ CountRes(reservations_file, e, n) = 0 )
       => LET created == create_reservation_op(e, n, hotels_file, customers_file,
                                               reservations_file)
              canceled == cancel_reservation_op(e, n, created.hotels, created.customers,
                                                created.reservations)
          IN /\ created.msg = "Reservation created successfully"
             /\ canceled.msg = "Reservation canceled successfully"
             /\ CountRes(canceled.reservations, e, n) = 0
             /\ HasHotel(canceled.hotels, n)
             /\ RoomsAt(canceled.hotels, n) = RoomsAt(hotels_file, n)

\* a cancel has just undone the only reservation: no record is left and
\* every stored hotel is back at the room count it was created with
C7_Witness ==
    /\ out.msg = "Reservation canceled successfully"
    /\ Stored(reservations_file) = <<>>
    /\ Len(Stored(hotels_file)) >= 1
    /\ \A i \in 1..Len(Stored(hotels_file)) :
          Stored(hotels_file)[i].rooms_available = InitRooms(Stored(hotels_file)[i].name)

(* -------------------------------- C8 ---------------------------------- *)
UniqueHotelNames(f) ==
    \A i, j \in 1..Len(Stored(f)) : Stored(f)[i].name = Stored(f)[j].name => i = j

UniqueCustomerEmails(f) ==
    \A i, j \in 1..Len(Stored(f)) : Stored(f)[i].email = Stored(f)[j].email => i = j

\* C8: starting from empty collections, after any sequence of save and
\* delete calls hotels.json holds at most one record per name and
\* customers.json at most one per email; and right after save() of a record
\* the loaded collection holds exactly one record with its key, equal to it
\* in every field, and still holds every record that had another key,
\* unchanged.
C8_SaveIsUpsert ==
    [][ /\ UniqueHotelNames(hotels_file')
        /\ UniqueCustomerEmails(customers_file')
        /\ \A h \in HotelObjects :
              Call_Hotel_save(h) =>
                 LET old == load_hotels(hotels_file).recs
                     new == load_hotels(hotels_file').recs
                 IN /\ Cardinality({i \in 1..Len(new) : new[i].name = h.name}) = 1
                    /\ Occurrences(new, h) = 1
                    /\ \A x \in HotelObjects :
                          x.name # h.name => Occurrences(new, x) = Occurrences(old, x)
        /\ \A c \in CustomerObjects :
              Call_Customer_save(c) =>
                 LET old == load_customers(customers_file).recs
                     new == load_customers(customers_file').recs
                 IN /\ Cardinality({i \in 1..Len(new) : new[i].email = c.email}) = 1
                    /\ Occurrences(new, c) = 1
                    /\ \A x \in CustomerObjects :
                          x.email # c.email => Occurrences(new, x) = Occurrences(old, x)
      ]_vars

\* a save has just replaced the record of a key that was stored first:
\* the other key's record now comes before it
C8_Witness ==
    /\ out.msg = "None"
    /\ Len(Stored(hotels_file)) = 2
    /\ Stored(hotels_file)[1].name = "H2"
    /\ Stored(hotels_file)[2] = Hotel("H1", "Rome", 0, "info@h.com")
    /\ Len(Stored(customers_file)) = 2

(* -------------------------------- C9 ---------------------------------- *)
\* C9: delete() of a hotel or a customer leaves no stored record with that
\* key and keeps every record with another key, as many times as it was
\* stored; when no stored record has the key the loaded collection is the
\* same sequence as before.
C9_DeleteByKey ==
    [][ /\ \A h \in HotelObjects :
              Call_Hotel_delete(h) =>
                 LET old == load_hotels(hotels_file).recs
                     new == load_hotels(hotels_file').recs
                 IN /\ \A x \in HotelObjects :
                          Occurrences(new, x)
                             = IF x.name = h.name THEN 0 ELSE Occurrences(old, x)
                    /\ Len(new) = Len(old) - Cardinality({i \in 1..Len(old) :
                                                            old[i].name = h.name})
                    /\ ~HasHotel(hotels_file, h.name) => new = old
        /\ \A c \in CustomerObjects :
              Call_Customer_delete(c) =>
                 LET old == load_customers(customers_file).recs
                     new == load_customers(customers_file').recs
                 IN /\ \A x \in CustomerObjects :
                          Occurrences(new, x)
                             = IF x.email = c.email THEN 0 ELSE Occurrences(old, x)
                    /\ Len(new) = Len(old) - Cardinality({i \in 1..Len(old) :
                                                            old[i].email = c.email})
                    /\ ~HasCustomer(customers_file, c.email) => new = old
      ]_vars

\* a delete has just emptied hotels.json (a save always leaves a record)
\* while customers.json still holds a record
C9_Witness ==
    /\ out.msg = "None"
    /\ hotels_file = ListFile(<<>>)
    /\ Len(Stored(customers_file)) = 1

(* -------------------------------- C10 --------------------------------- *)
\* C10: a load never raises; from an absent file, and from a file holding
\* anything but a list of well-formed records, it returns the empty list;
\* and a save() run on such a file returns normally and leaves the file
\* holding exactly the saved record.
C10_LoadNeverRaises ==
    [][ /\ Call_load_hotels =>
              /\ out'.msg = "loaded"
              /\ hotels_file.kind # "list" => out'.shape = "list" /\ out'.val = <<>>
        /\ Call_load_customers =>
              /\ out'.msg = "loaded"
              /\ customers_file.kind # "list" => out'.shape = "list" /\ out'.val = <<>>
        /\ Call_load_reservations =>
              /\ out'.msg = "loaded"
              /\ reservations_file.kind # "list" => out'.shape = "list" /\ out'.val = <<>>
        /\ \A h \in HotelObjects :
              (Call_Hotel_save(h) /\ hotels_file.kind # "list") =>
                 out'.msg = "None" /\ hotels_file' = ListFile(<<h>>)
        /\ \A c \in CustomerObjects :
              (Call_Customer_save(c) /\ customers_file.kind # "list") =>
                 out'.msg = "None" /\ customers_file' = ListFile(<<c>>)
        /\ \A r \in ReservationObjects :
              (Call_Reservation_save(r) /\ reservations_file.kind # "list") =>
                 out'.msg = "None" /\ reservations_file' = ListFile(<<r>>)
      ]_vars

(* ============== the same writes, when a write can fail ================ *)
\* What one open(path, 'w') / json.dump can do:
\*   ok         the file holds the new list
\*   denied     open() raises IOError: the file is as it was
\*   truncated  open() has emptied the file and the write raises IOError:
\*              the file holds no JSON
\* Both failures are caught, a line "Error saving ..." is printed and the
\* caller goes on.
WriteOutcomes == {"ok", "denied", "truncated"}

\* the file after a write of recs over the file f
Written(recs, f, io) ==
    CASE io = "ok"        -> ListFile(recs)
      [] io = "denied"    -> f
      [] io = "truncated" -> CorruptFile("text")

\* exc and file as before; failed tells that a write of the call failed
ReturnedIO(file, io) == [exc |-> "none", file |-> file, failed |-> io # "ok"]
RaisesIO(exc, file) == [exc |-> exc, file |-> file, failed |-> FALSE]

Hotel_save_all_io(hotels, f, io) == Written(hotels, f, io)

Hotel_save_io(self, f, io) ==
    LET l == load_hotels(f) IN
    IF l.exc # "none" THEN RaisesIO(l.exc, f)
    ELSE LET existing == FirstHotel(l.recs, self.name)
             hotels == IF existing # 0 THEN RemoveAt(l.recs, existing) ELSE l.recs
         IN ReturnedIO(Hotel_save_all_io(Append(hotels, self), f, io), io)

Hotel_delete_io(self, f, io) ==
    LET l == load_hotels(f) IN
    IF l.exc # "none" THEN RaisesIO(l.exc, f)
    ELSE ReturnedIO(Hotel_save_all_io(SelectSeq(l.recs, LAMBDA h : h.name # self.name),
                                      f, io), io)

Hotel_reserve_room_io(self, f, io) ==
    IF self.rooms_available > 0
    THEN LET s == Hotel_save_io([self EXCEPT !.rooms_available = @ - 1], f, io)
         IN [exc |-> s.exc, file |-> s.file, failed |-> s.failed, ret |-> TRUE]
    ELSE [exc |-> "none", file |-> f, failed |-> FALSE, ret |-> FALSE]

Hotel_cancel_reservation_io(self, f, io) ==
    Hotel_save_io([self EXCEPT !.rooms_available = @ + 1], f, io)

Reservation_save_io(self, f, io) ==
    LET l == load_reservations(f) IN
    IF l.exc # "none" THEN RaisesIO(l.exc, f)
    ELSE IF l.shape = "scalar" THEN RaisesIO("AttributeError", f)
    ELSE IF l.shape = "badrecs" THEN ReturnedIO([kind |-> "badrecs",
                                                 recs |-> Append(l.recs, self)], "ok")
    ELSE ReturnedIO(Written(Append(l.recs, self), f, io), io)

Reservation_cancel_io(self, f, io) ==
    LET l == load_reservations(f) IN
    IF l.exc # "none" THEN RaisesIO(l.exc, f)
    ELSE IF l.shape = "scalar" THEN RaisesIO("TypeError", f)
    ELSE IF l.shape = "badrecs" THEN RaisesIO("KeyError", f)
    ELSE ReturnedIO(Written(SelectSeq(l.recs,
                        LAMBDA r : ~(r.customer_email = self.customer_email
                                     /\ r.hotel_name = self.hotel_name)), f, io), io)

\* Outcome, and whether a write of the operation failed
OutcomeIO(m, hf, cf, rf, failed) ==
    [msg |-> m, hotels |-> hf, customers |-> cf, reservations |-> rf,
     failed |-> failed]

\* io1 is the outcome of the write of reservations.json, io2 of hotels.json
create_reservation_io_op(email, hotel_name, hf, cf, rf, io1, io2) ==
    LET cl == load_customers(cf) IN
    IF cl.exc # "none" THEN OutcomeIO(cl.exc, hf, cf, rf, FALSE)
    ELSE IF FirstCustomer(cl.recs, email) = 0
         THEN OutcomeIO("Customer not found", hf, cf, rf, FALSE)
    ELSE LET hl == load_hotels(hf) IN
    IF hl.exc # "none" THEN OutcomeIO(hl.exc, hf, cf, rf, FALSE)
    ELSE LET i == FirstHotel(hl.recs, hotel_name) IN
    IF i = 0 THEN OutcomeIO("Hotel not found", hf, cf, rf, FALSE)
    ELSE IF hl.recs[i].rooms_available <= 0
         THEN OutcomeIO("No available rooms in this hotel", hf, cf, rf, FALSE)
    ELSE LET s == Reservation_save_io(Reservation(email, hotel_name), rf, io1) IN
    IF s.exc # "none" THEN OutcomeIO(s.exc, hf, cf, s.file, FALSE)
    ELSE LET r == Hotel_reserve_room_io(hl.recs[i], hf, io2) IN
    IF r.exc # "none" THEN OutcomeIO(r.exc, r.file, cf, s.file, s.failed)
    ELSE IF r.ret THEN OutcomeIO("Reservation created successfully", r.file, cf, s.file,
                                 s.failed \/ r.failed)
    ELSE OutcomeIO("Failed to create reservation", r.file, cf, s.file, s.failed)

cancel_reservation_io_op(email, hotel_name, hf, cf, rf, io1, io2) ==
    LET l == load_reservations(rf) IN
    IF l.exc # "none" THEN OutcomeIO(l.exc, hf, cf, rf, FALSE)
    ELSE IF l.shape = "scalar" THEN OutcomeIO("TypeError", hf, cf, rf, FALSE)
    ELSE IF l.shape = "badrecs" THEN OutcomeIO("KeyError", hf, cf, rf, FALSE)
    ELSE IF FirstReservation(l.recs, email, hotel_name) = 0
         THEN OutcomeIO("Reservation not found", hf, cf, rf, FALSE)
    ELSE LET c == Reservation_cancel_io(Reservation(email, hotel_name), rf, io1) IN
    IF c.exc # "none" THEN OutcomeIO(c.exc, hf, cf, c.file, FALSE)
    ELSE LET hl == load_hotels(hf) IN
    IF hl.exc # "none" THEN OutcomeIO(hl.exc, hf, cf, c.file, c.failed)
    ELSE LET i == FirstHotel(hl.recs, hotel_name) IN
    IF i = 0 THEN OutcomeIO("Reservation canceled successfully", hf, cf, c.file, c.failed)
    ELSE LET h == Hotel_cancel_reservation_io(hl.recs[i], hf, io2) IN
    IF h.exc # "none" THEN OutcomeIO(h.exc, h.file, cf, c.file, c.failed)
    ELSE OutcomeIO("Reservation canceled successfully", h.file, cf, c.file,
                   c.failed \/ h.failed)

\* hotel.save() / hotel.delete(): the last line printed is the error line
\* when the write failed
Hotel_save_io_op(self, hf, cf, rf, io) ==
    LET s == Hotel_save_io(self, hf, io) IN
    OutcomeIO(IF s.exc # "none" THEN s.exc
              ELSE IF s.failed THEN "Error saving hotels" ELSE "None",
              s.file, cf, rf, s.failed)

Hotel_delete_io_op(self, hf, cf, rf, io) ==
    LET s == Hotel_delete_io(self, hf, io) IN
    OutcomeIO(IF s.exc # "none" THEN s.exc
              ELSE IF s.failed THEN "Error saving hotels" ELSE "None",
              s.file, cf, rf, s.failed)

create_reservation_io(email, hotel_name, io1, io2) ==
    Apply(create_reservation_io_op(email, hotel_name, hotels_file, customers_file,
                                   reservations_file, io1, io2))

cancel_reservation_io(email, hotel_name, io1, io2) ==
    Apply(cancel_reservation_io_op(email, hotel_name, hotels_file, customers_file,
                                   reservations_file, io1, io2))

Call_Hotel_save_io(self, io) ==
    Apply(Hotel_save_io_op(self, hotels_file, customers_file, reservations_file, io))

Call_Hotel_delete_io(self, io) ==
    Apply(Hotel_delete_io_op(self, hotels_file, customers_file, reservations_file, io))

NextIO ==
    \/ \E e \in Emails, n \in HotelNames, io1, io2 \in WriteOutcomes :
          create_reservation_io(e, n, io1, io2)
    \/ \E e \in Emails, n \in HotelNames, io1, io2 \in WriteOutcomes :
          cancel_reservation_io(e, n, io1, io2)
    \/ \E n \in HotelNames, r \in RoomCounts, io \in WriteOutcomes :
          Call_Hotel_save_io(Hotel(n, "Paris", r, "info@h.com"), io)
    \/ \E n \in HotelNames, io \in WriteOutcomes :
          Call_Hotel_delete_io(Hotel(n, "Paris", 0, "info@h.com"), io)

SpecIO == InitRes /\ [][NextIO]_vars

(* -------------------------------- C11 --------------------------------- *)
\* the three stored collections are the same before and after the step
SameCollections ==
    /\ Stored(hotels_file') = Stored(hotels_file)
    /\ Stored(customers_file') = Stored(customers_file)
    /\ Stored(reservations_file') = Stored(reservations_file)

\* C11: whenever a write of a backing file fails during save, delete,
\* create_reservation or cancel_reservation, the three stored collections
\* are afterwards exactly as they were before the operation (so no
\* reservation record without its room taken, no room taken without its
\* record).
C11_FailedWriteLeavesFilesUntouched ==
    [][ /\ \A e \in Emails, n \in HotelNames, io1, io2 \in WriteOutcomes :
              ( /\ create_reservation_io(e, n, io1, io2)
                /\ create_reservation_io_op(e, n, hotels_file, customers_file,
                                            reservations_file, io1, io2).failed )
              => SameCollections
        /\ \A e \in Emails, n \in HotelNames, io1, io2 \in WriteOutcomes :
              ( /\ cancel_reservation_io(e, n, io1, io2)
                /\ cancel_reservation_io_op(e, n, hotels_file, customers_file,
                                            reservations_file, io1, io2).failed )
              => SameCollections
        /\ \A h \in HotelObjects, io \in WriteOutcomes :
              ( /\ Call_Hotel_save_io(h, io) \/ Call_Hotel_delete_io(h, io)
                /\ io # "ok" )
              => SameCollections
      ]_vars

(* -------------------------------- C12 --------------------------------- *)
\* C12 as stated: reserve_room() on a Hotel object with rooms_available > 0
\* returns True and leaves the stored room count of that hotel exactly 1
\* lower than it was; with 0 it returns False and leaves hotels.json as it
\* was; cancel_reservation() leaves the stored room count exactly 1 higher
\* than it was.
C12_StoredCountMovesByOne ==
    [][\A h \in HotelObjects :
         /\ (Call_Hotel_reserve_room(h) /\ h.rooms_available > 0
                /\ HasHotel(hotels_file, h.name))
            => /\ out'.msg = "True"
               /\ HasHotel(hotels_file', h.name)
               /\ RoomsAt(hotels_file', h.name) = RoomsAt(hotels_file, h.name) - 1
         /\ (Call_Hotel_reserve_room(h) /\ h.rooms_available = 0)
            => /\ out'.msg = "False"
               /\ hotels_file' = hotels_file
         /\ (Call_Hotel_cancel_reservation(h) /\ HasHotel(hotels_file, h.name))
            => /\ HasHotel(hotels_file', h.name)
               /\ RoomsAt(hotels_file', h.name) = RoomsAt(hotels_file, h.name) + 1
      ]_vars

\* C12 as amended: reserve_room() on a Hotel object with rooms_available > 0
\* returns True and stores the object with its room count lowered by 1 (one
\* less than the stored count when the stored record has the object's
\* count); with 0 it returns False and leaves hotels.json as it was;
\* cancel_reservation() stores the object with its room count raised by 1
\* (one more than the stored count when the stored record has the object's
\* count).
C12_StoresObjectCountMovedByOne ==
    [][\A h \in HotelObjects :
         /\ (Call_Hotel_reserve_room(h) /\ h.rooms_available > 0)
            => /\ out'.msg = "True"
               /\ Occurrences(Stored(hotels_file'),
                              [h EXCEPT !.rooms_available = @ - 1]) = 1
               /\ RoomsAt(hotels_file', h.name) = h.rooms_available - 1
               /\ (HasHotel(hotels_file, h.name)
                     /\ RoomsAt(hotels_file, h.name) = h.rooms_available)
                  => RoomsAt(hotels_file', h.name) = RoomsAt(hotels_file, h.name) - 1
         /\ (Call_Hotel_reserve_room(h) /\ h.rooms_available = 0)
            => /\ out'.msg = "False"
               /\ hotels_file' = hotels_file
         /\ Call_Hotel_cancel_reservation(h)
            => /\ out'.msg = "None"
               /\ Occurrences(Stored(hotels_file'),
                              [h EXCEPT !.rooms_available = @ + 1]) = 1
               /\ RoomsAt(hotels_file', h.name) = h.rooms_available + 1
               /\ (HasHotel(hotels_file, h.name)
                     /\ RoomsAt(hotels_file, h.name) = h.rooms_available)
                  => RoomsAt(hotels_file', h.name) = RoomsAt(hotels_file, h.name) + 1
      ]_vars

\* reserve_room() has just returned True and stored a hotel with one room
\* left, next to another stored hotel
C12_Witness ==
    /\ out.msg = "True"
    /\ Len(Stored(hotels_file)) = 2
    /\ Stored(hotels_file)[2].rooms_available = 1

(* -------------------------------- C14 --------------------------------- *)
\* C14: run one operation at a time with every write succeeding, no step ever
\* prints "Failed to create reservation", and every create_reservation that
\* stores a reservation record prints success and leaves the stored room
\* count of its hotel exactly 1 lower (reserve_room returned True).
C14_PersistedImpliesReserved ==
    [][ /\ out'.msg # "Failed to create reservation"
        /\ \A e \in Emails, n \in HotelNames :
             (create_reservation(e, n)
                 /\ Stored(reservations_file') # Stored(reservations_file))
             => /\ out'.msg = "Reservation created successfully"
                /\ HasHotel(hotels_file, n)
                /\ RoomsAt(hotels_file, n) > 0
                /\ RoomsAt(hotels_file', n) = RoomsAt(hotels_file, n) - 1
      ]_vars

\* a create_reservation has just taken the last room of a hotel that two
\* records now name
C14_Witness ==
    /\ out.msg = "Reservation created successfully"
    /\ \E n \in HotelNames :
          /\ HasHotel(hotels_file, n)
          /\ RoomsAt(hotels_file, n) = 0
          /\ CountHotelRes(reservations_file, n) = 2

(* -------------------------------- C15 --------------------------------- *)
\* rooms_available of the stored hotel plus the stored records naming it
Accounted(hf, rf, name) == RoomsAt(hf, name) + CountHotelRes(rf, name)

\* C15: with create_reservation and cancel_reservation only, starting with no
\* reservations, the stored room count of a hotel plus the number of stored
\* records naming it never exceeds the count the hotel started with and
\* never grows; it shrinks in a step exactly when that step is a cancel that
\* removes more than one record of the pair.
C15_CapacityLeaksButNeverGrows ==
    [][\A n \in HotelNames :
         HasHotel(hotels_file, n)
         => /\ HasHotel(hotels_file', n)
            /\ Accounted(hotels_file', reservations_file', n) <= InitRooms(n)
            /\ Accounted(hotels_file', reservations_file', n)
                 <= Accounted(hotels_file, reservations_file, n)
            /\ (Accounted(hotels_file', reservations_file', n)
                  < Accounted(hotels_file, reservations_file, n))
               <=> \E e \in Emails :
                      /\ cancel_reservation(e, n)
                      /\ CountRes(reservations_file, e, n) > 1
      ]_vars

\* a cancel has just removed two records of one pair and given one room back
C15_Witness ==
    /\ out.msg = "Reservation canceled successfully"
    /\ \E n \in HotelNames :
          /\ HasHotel(hotels_file, n)
          /\ Accounted(hotels_file, reservations_file, n) < InitRooms(n)

(* -------------------------------- C17 --------------------------------- *)
\* C17: delete_hotel and delete_customer leave reservations.json as it was;
\* cancel_reservation for a pair that stored records match, with no hotel of
\* that name stored, prints success, removes exactly the matching records
\* and leaves hotels.json as it was.
C17_DeleteLeavesReservationsDangling ==
    [][ /\ \A n \in HotelNames :
             delete_hotel(n) => reservations_file' = reservations_file
        /\ \A e \in Emails :
             delete_customer(e) => reservations_file' = reservations_file
        /\ \A e \in Emails, n \in HotelNames :
             (cancel_reservation(e, n)
                 /\ CountRes(reservations_file, e, n) >= 1
                 /\ ~HasHotel(hotels_file, n))
             => /\ out'.msg = "Reservation canceled successfully"
                /\ Stored(reservations_file')
                     = SelectSeq(Stored(reservations_file),
                                 LAMBDA r : r # Reservation(e, n))
                /\ hotels_file' = hotels_file
      ]_vars

\* a cancel has just succeeded although no hotel and no customer is stored
\* any more
C17_Witness ==
    /\ out.msg = "Reservation canceled successfully"
    /\ hotels_file = ListFile(<<>>)
    /\ customers_file = ListFile(<<>>)

(* ------- two runs, each inside one save() or delete() call ------------- *)
\* save() and delete() read the whole collection, change the list in memory
\* and rewrite the whole file; nothing is locked in between.  Each step
\* below is one file access of one run: the load, then the rewrite computed
\* from what that load returned.
SetProc(p, r) == procs' = [procs EXCEPT ![p] = r]

\* Hotel.save: hotels = self.load_hotels()
Hotel_save_load(p, self) ==
    /\ procs[p].pc = "idle"
    /\ SetProc(p, Proc("loaded", "Hotel.save", self, NoReservation, hotels_file, ""))
    /\ UNCHANGED <<hotels_file, customers_file, reservations_file, out>>

\* Hotel.save: the upsert in memory and self._save_all(hotels)
Hotel_save_write(p) ==
    /\ procs[p].pc = "loaded"
    /\ procs[p].op = "Hotel.save"
    /\ LET s == Hotel_save(procs[p].hotel, procs[p].snap) IN
          /\ hotels_file' = s.file
          /\ SetProc(p, [procs[p] EXCEPT !.pc = "done", !.msg = s.exc])
    /\ UNCHANGED <<customers_file, reservations_file, out>>

\* Hotel.delete: hotels = self.load_hotels()
Hotel_delete_load(p, self) ==
    /\ procs[p].pc = "idle"
    /\ SetProc(p, Proc("loaded", "Hotel.delete", self, NoReservation, hotels_file, ""))
    /\ UNCHANGED <<hotels_file, customers_file, reservations_file, out>>

\* Hotel.delete: the filter in memory and self._save_all(hotels)
Hotel_delete_write(p) ==
    /\ procs[p].pc = "loaded"
    /\ procs[p].op = "Hotel.delete"
    /\ LET d == Hotel_delete(procs[p].hotel, procs[p].snap) IN
          /\ hotels_file' = d.file
          /\ SetProc(p, [procs[p] EXCEPT !.pc = "done", !.msg = d.exc])
    /\ UNCHANGED <<customers_file, reservations_file, out>>

\* Reservation.save: reservations = self.load_reservations()
Reservation_save_load(p, self) ==
    /\ procs[p].pc = "idle"
    /\ SetProc(p, Proc("loaded", "Reservation.save", NoHotel, self, reservations_file, ""))
    /\ UNCHANGED <<hotels_file, customers_file, reservations_file, out>>

\* Reservation.save: the append in memory and json.dump(reservations, f)
Reservation_save_write(p) ==
    /\ procs[p].pc = "loaded"
    /\ procs[p].op = "Reservation.save"
    /\ LET s == Reservation_save(procs[p].res, procs[p].snap) IN
          /\ reservations_file' = s.file
          /\ SetProc(p, [procs[p] EXCEPT !.pc = "done", !.msg = s.exc])
    /\ UNCHANGED <<hotels_file, customers_file, out>>

\* The Hotel objects the two runs save or delete
RaceHotels == {Hotel(n, "Paris", r, "info@h.com") : n \in HotelNames, r \in RoomCounts}

NextRace ==
    \/ \E p \in Procs, h \in RaceHotels : Hotel_save_load(p, h)
    \/ \E p \in Procs : Hotel_save_write(p)
    \/ \E p \in Procs, h \in RaceHotels : Hotel_delete_load(p, h)
    \/ \E p \in Procs : Hotel_delete_write(p)
    \/ \E p \in Procs, r \in ReservationObjects : Reservation_save_load(p, r)
    \/ \E p \in Procs : Reservation_save_write(p)

SpecRace == InitRes /\ [][NextRace]_vars

(* -------------------------------- C13 --------------------------------- *)
\* both runs have finished a call of op
BothDone(p, q, op) ==
    /\ p # q
    /\ procs[p].pc = "done" /\ procs[p].op = op
    /\ procs[q].pc = "done" /\ procs[q].op = op

InSnap(x, snap) == \E i \in 1..Len(Stored(snap)) : Stored(snap)[i] = x

\* what save() makes of the collection it loaded
Upserted(snap, h) ==
    SelectSeq(Stored(snap), LAMBDA x : x.name # h.name) \o <<h>>

\* C13: when two Hotel.save calls for different names have both finished and
\* neither had loaded the other's record (both loaded before either
\* rewrote), hotels.json is what one of them loaded with its own record put
\* in, and holds exactly one of the two records; when two Reservation.save
\* calls that loaded the same collection have both finished,
\* reservations.json holds one record more than they loaded, not two.
C13_InterleavedSavesLoseOne ==
    \A p, q \in Procs :
       /\ (BothDone(p, q, "Hotel.save")
              /\ procs[p].hotel.name # procs[q].hotel.name
              /\ ~InSnap(procs[p].hotel, procs[q].snap)
              /\ ~InSnap(procs[q].hotel, procs[p].snap))
          => /\ Stored(hotels_file) \in {Upserted(procs[p].snap, procs[p].hotel),
                                        Upserted(procs[q].snap, procs[q].hotel)}
             /\ Occurrences(Stored(hotels_file), procs[p].hotel)
                  + Occurrences(Stored(hotels_file), procs[q].hotel) = 1
       /\ (BothDone(p, q, "Reservation.save") /\ procs[p].snap = procs[q].snap)
          => Len(Stored(reservations_file)) = Len(Stored(procs[p].snap)) + 1

\* two saves of different names have both finished and only one of the two
\* names is stored
C13_Witness ==
    \E p, q \in Procs :
       /\ BothDone(p, q, "Hotel.save")
       /\ procs[p].hotel.name # procs[q].hotel.name
       /\ ~HasHotel(hotels_file, procs[p].hotel.name)
       /\ HasHotel(hotels_file, procs[q].hotel.name)

(* ------------- two runs, each inside create_reservation --------------- *)
\* create_reservation, one file access per step.  res holds the email and
\* hotel name typed in, hotel the Hotel object found in hotels.json.

\* customers = Customer.load_customers() and the lookup of the email
cr_read_customers(p, email, hotel_name) ==
    /\ procs[p].pc = "idle"
    /\ LET cl == load_customers(customers_file)
           r == Proc("hotels", "create_reservation", NoHotel,
                     Reservation(email, hotel_name), AbsentFile, "")
       IN SetProc(p, IF cl.exc # "none"
                        THEN [r EXCEPT !.pc = "done", !.msg = cl.exc]
                     ELSE IF FirstCustomer(cl.recs, email) = 0
                        THEN [r EXCEPT !.pc = "done", !.msg = "Customer not found"]
                     ELSE r)
    /\ UNCHANGED <<hotels_file, customers_file, reservations_file, out>>

\* hotels = Hotel.load_hotels(), the lookup of the name and the room test
cr_read_hotels(p) ==
    /\ procs[p].pc = "hotels"
    /\ LET hl == load_hotels(hotels_file)
           i == FirstHotel(hl.recs, procs[p].res.hotel_name)
       IN SetProc(p, IF hl.exc # "none"
                        THEN [procs[p] EXCEPT !.pc = "done", !.msg = hl.exc]
                     ELSE IF i = 0
                        THEN [procs[p] EXCEPT !.pc = "done", !.msg = "Hotel not found"]
                     ELSE IF hl.recs[i].rooms_available <= 0
                        THEN [procs[p] EXCEPT !.pc = "done",
                                              !.msg = "No available rooms in this hotel"]
                     ELSE [procs[p] EXCEPT !.pc = "res_load", !.hotel = hl.recs[i]])
    /\ UNCHANGED <<hotels_file, customers_file, reservations_file, out>>

\* reservation.save(): reservations = self.load_reservations()
cr_res_load(p) ==
    /\ procs[p].pc = "res_load"
    /\ SetProc(p, [procs[p] EXCEPT !.pc = "res_write", !.snap = reservations_file])
    /\ UNCHANGED <<hotels_file, customers_file, reservations_file, out>>

\* reservation.save(): the append in memory and the rewrite
cr_res_write(p) ==
    /\ procs[p].pc = "res_write"
    /\ LET s == Reservation_save(procs[p].res, procs[p].snap) IN
          /\ reservations_file' = s.file
          /\ SetProc(p, IF s.exc # "none"
                           THEN [procs[p] EXCEPT !.pc = "done", !.msg = s.exc]
                        ELSE [procs[p] EXCEPT !.pc = "reserve"])
    /\ UNCHANGED <<hotels_file, customers_file, out>>

\* hotel.reserve_room(): the test of the object's own count and, when it
\* passes, the load inside self.save()
cr_reserve_load(p) ==
    /\ procs[p].pc = "reserve"
    /\ SetProc(p, IF Hotel_reserve_room(procs[p].hotel, hotels_file).ret
                     THEN [procs[p] EXCEPT !.pc = "hotels_write", !.snap = hotels_file]
                  ELSE [procs[p] EXCEPT !.pc = "done",
                                        !.msg = "Failed to create reservation"])
    /\ UNCHANGED <<hotels_file, customers_file, reservations_file, out>>

\* hotel.reserve_room(): the rewrite inside self.save() with the object's
\* count lowered, and the line printed on its return value
cr_hotels_write(p) ==
    /\ procs[p].pc = "hotels_write"
    /\ LET r == Hotel_reserve_room(procs[p].hotel, procs[p].snap) IN
          /\ hotels_file' = r.file
          /\ SetProc(p, [procs[p] EXCEPT
                           !.pc = "done",
                           !.hotel = [@ EXCEPT !.rooms_available = @ - 1],
                           !.msg = IF r.exc # "none" THEN r.exc
                                   ELSE IF r.ret THEN "Reservation created successfully"
                                   ELSE "Failed to create reservation"])
    /\ UNCHANGED <<customers_file, reservations_file, out>>

NextBook ==
    \/ \E p \in Procs, e \in Emails, n \in HotelNames : cr_read_customers(p, e, n)
    \/ \E p \in Procs : cr_read_hotels(p)
    \/ \E p \in Procs : cr_res_load(p)
    \/ \E p \in Procs : cr_res_write(p)
    \/ \E p \in Procs : cr_reserve_load(p)
    \/ \E p \in Procs : cr_hotels_write(p)

SpecBook == InitRes /\ [][NextBook]_vars

(* -------------------------------- C16 --------------------------------- *)
\* both runs have printed success for the hotel called name
BothBooked(p, q, name) ==
    /\ BothDone(p, q, "create_reservation")
    /\ procs[p].msg = "Reservation created successfully"
    /\ procs[q].msg = "Reservation created successfully"
    /\ procs[p].res.hotel_name = name
    /\ procs[q].res.hotel_name = name

\* C16: no run ever prints "Failed to create reservation"; when two
\* create_reservation calls for one hotel have both printed success and both
\* had read the same room count (both read hotels.json before either
\* rewrote it), the stored count is one below the initial count, not two;
\* when they had read different counts it is two below.
C16_TwoSuccessesOneRoom ==
    /\ \A p \in Procs : procs[p].msg # "Failed to create reservation"
    /\ \A p, q \in Procs, n \in HotelNames :
          BothBooked(p, q, n)
          => /\ HasHotel(hotels_file, n)
             /\ RoomsAt(hotels_file, n) >= 0
             /\ procs[p].hotel = procs[q].hotel
                => RoomsAt(hotels_file, n) = InitRooms(n) - 1
             /\ procs[p].hotel # procs[q].hotel
                => RoomsAt(hotels_file, n) = InitRooms(n) - 2

\* both runs have printed success for the hotel that had one room: two
\* records name it and one room was taken
C16_Witness ==
    \E p, q \in Procs :
       /\ BothBooked(p, q, "H1")
       /\ CountHotelRes(reservations_file, "H1") = 2
       /\ RoomsAt(hotels_file, "H1") = 0

====
